---- MODULE Spec2Model ----
(***************************************************************************)
(* Geometry and material ledger engine of ECAL_HCAL_DNN_EnergyRegression:  *)
(* the material catalog (helpers/Trackers.py), the cost ledger CostTracker *)
(* (helpers/Trackers.py), the geometry descriptor (helpers/G4Calo.py) and  *)
(* the three design builders (Design.py).                                  *)
(*                                                                         *)
(* Numbers.  The program computes in binary floating point.  A float is    *)
(* modelled as an integer count of grid units of 2^-FracBits, kept to      *)
(* Precision significant bits by round-to-nearest, ties-to-even (RoundQ).  *)
(* With Precision = 53 and FracBits = 1074 these are the IEEE doubles of   *)
(* the program; the model runs the same arithmetic at a small width so     *)
(* that rounding happens within the bounds.  Python ints (period counts)   *)
(* are plain integers.                                                     *)
(***************************************************************************)
EXTENDS Integers, Sequences, FiniteSets, TLC

\* ---------------------------------------------------------------- bounds
Precision == 7
FracBits == 4
MaxOps == 3

ONE == 2 ^ FracBits

\* ------------------------------------------------------ float arithmetic
Abs(x) == IF x < 0 THEN -x ELSE x

Sign(x) == IF x < 0 THEN -1 ELSE 1

Max(a, b) == IF a >= b THEN a ELSE b

\* The one element of a singleton.  Only({e(x) : x \in {v}}) is
\* LET x == v IN e(x) with v evaluated once.
Only(S) == CHOOSE x \in S : TRUE

\* The divisor d * 2^e with the least e >= 0 that leaves at most Precision
\* significant bits in the quotient n / (d * 2^e); n >= 0, d > 0.
RECURSIVE Scale(_, _)
Scale(n, d) ==
    IF n \div d < 2 ^ Precision THEN d
    ELSE Only({Scale(n, d2) : d2 \in {2 * d}})

\* q, or q + 1 when the remainder r of the division by dd rounds up
\* (to nearest, ties to the even significand).
Nearest(q, r, dd) ==
    IF (2 * r > dd) \/ (2 * r = dd /\ q % 2 = 1) THEN q + 1 ELSE q

\* The float nearest to the rational n / d (in grid units), ties to even.
RoundQ(n, d) ==
    Only({Sign(n) * Sign(d) * Nearest(Abs(n) \div dd, Abs(n) % dd, dd) * (dd \div Abs(d)) :
            dd \in {Scale(Abs(n), Abs(d))}})

\* The float a decimal literal n/d denotes, and float(n) of a Python int.
Lit(n, d) == RoundQ(n * ONE, d)

FromInt(n) == RoundQ(n * ONE, 1)

FAdd(a, b) == RoundQ(a + b, 1)

FSub(a, b) == RoundQ(a - b, 1)

FMul(a, b) == RoundQ(a * b, ONE)

FDiv(a, b) == RoundQ(a * ONE, b)

\* The spacing of the floats at x: one grid unit below 2^Precision units,
\* doubling with each further binary order of magnitude.
Ulp(x) == Scale(Abs(x), 1)

\* ------------------------------------------------------ material catalog
\* Python dicts are functions on the set of their keys.
Get(d, m, dflt) == IF m \in DOMAIN d THEN d[m] ELSE dflt

Put(d, m, v) == [x \in DOMAIN d \cup {m} |-> IF x = m THEN v ELSE d[x]]

\* Material identifiers: those of the price list, and one the catalog does
\* not know.
Unknown == "G4_Unobtainium"

\* The price list as the module is loaded, CHF per (cm m^2).
InitCost ==
    [m \in {"G4_POLYSTYRENE", "G4_Pb", "G4_Fe", "G4_W", "G4_Cu", "G4_BRASS", "G4_PbWO4"} |->
        CASE m = "G4_POLYSTYRENE" -> Lit(0, 1)
          [] m = "G4_Pb"          -> Lit(300, 1)
          [] m = "G4_Fe"          -> Lit(50, 1)
          [] m = "G4_W"           -> Lit(6000, 1)
          [] m = "G4_Cu"          -> Lit(800, 1)
          [] m = "G4_BRASS"       -> Lit(200, 1)
          [] m = "G4_PbWO4"       -> Lit(30000, 1)]

\* Radiation and interaction lengths as the module is loaded, cm.
InitProp ==
    [m \in {"G4_POLYSTYRENE", "G4_Pb", "G4_Fe", "G4_W", "G4_Cu", "G4_BRASS", "G4_PbWO4"} |->
        CASE m = "G4_POLYSTYRENE" -> [X0_cm |-> Lit(424, 10), lambdaI_cm |-> Lit(770, 10)]
          [] m = "G4_Pb"          -> [X0_cm |-> Lit(56, 100), lambdaI_cm |-> Lit(171, 10)]
          [] m = "G4_Fe"          -> [X0_cm |-> Lit(176, 100), lambdaI_cm |-> Lit(168, 10)]
          [] m = "G4_W"           -> [X0_cm |-> Lit(35, 100), lambdaI_cm |-> Lit(96, 10)]
          [] m = "G4_Cu"          -> [X0_cm |-> Lit(143, 100), lambdaI_cm |-> Lit(153, 10)]
          [] m = "G4_BRASS"       -> [X0_cm |-> Lit(150, 100), lambdaI_cm |-> Lit(150, 10)]
          [] m = "G4_PbWO4"       -> [X0_cm |-> Lit(89, 100), lambdaI_cm |-> Lit(207, 10)]]

\* The convenience lookups, built once from MATERIAL_PROP as the module is
\* loaded; Design.py imports LAMBDA_INT_CM.
X0_CM == [m \in DOMAIN InitProp |-> InitProp[m].X0_cm]

LAMBDA_INT_CM == [m \in DOMAIN InitProp |-> InitProp[m].lambdaI_cm]

VARIABLES
    COST_CHF_PER_CM_M2,  \* the price list (module global)
    MATERIAL_PROP,       \* X0 and lambdaI per material (module global)
    ct,                  \* the caller's CostTracker
    gd,                  \* layers of the geometry the last builder call returned
    specs,               \* specs the last builder call returned
    out,                 \* what the last summary() returned
    last,                \* the last call: operation, arguments, outcome
    mirror,              \* layers of every geometry returned by a builder given ct
    onlyBuilt,           \* ct was written by returning builder calls only
    nAdds,               \* add calls that have returned on ct
    nOps,                \* calls made so far
    frame                \* the last builder call's own gd as the call ended

vars == <<COST_CHF_PER_CM_M2, MATERIAL_PROP, ct, gd, specs, out, last, mirror, onlyBuilt,
          nAdds, nOps, frame>>

\* ------------------------------------------------------------ CostTracker
\* CostTracker(area_m2): empty accumulators, zero totals.
CostTracker(area) ==
    [area_m2 |-> area,
     by_material_cm |-> <<>>, by_material_chf |-> <<>>,
     by_material_X0 |-> <<>>, by_material_lambdaI |-> <<>>,
     total_length_cm |-> 0, total_cost_chf |-> 0, total_X0 |-> 0, total_lambdaI |-> 0]

\* _check_material passes.
check_material(material) ==
    /\ material \in DOMAIN COST_CHF_PER_CM_M2
    /\ material \in DOMAIN MATERIAL_PROP

\* cost_of_layer with the transverse area left out.
cost_of_layer_no_area(thickness_cm, material, area_m2) ==
    FMul(thickness_cm, COST_CHF_PER_CM_M2[material])

\* cost = thickness_cm x area_m2 x unit_price.
cost_of_layer(thickness_cm, material, area_m2) ==
    FMul(FMul(thickness_cm, area_m2), COST_CHF_PER_CM_M2[material])

\* accumulate with the running cost total left as it was.
accumulate_cost_total_kept(l, material, tcm, chf, x0_units, li_units) ==
    [l EXCEPT
       !.by_material_cm      = Put(@, material, FAdd(Get(@, material, 0), tcm)),
       !.by_material_chf     = Put(@, material, FAdd(Get(@, material, 0), chf)),
       !.by_material_X0      = Put(@, material, FAdd(Get(@, material, 0), x0_units)),
       !.by_material_lambdaI = Put(@, material, FAdd(Get(@, material, 0), li_units)),
       !.total_length_cm     = FAdd(@, tcm),
       !.total_X0            = FAdd(@, x0_units),
       !.total_lambdaI       = FAdd(@, li_units)]

\* The ledger after add(material, thickness_cm, count) returns.
accumulate(l, material, tcm, chf, x0_units, li_units) ==
    [l EXCEPT
       !.by_material_cm      = Put(@, material, FAdd(Get(@, material, 0), tcm)),
       !.by_material_chf     = Put(@, material, FAdd(Get(@, material, 0), chf)),
       !.by_material_X0      = Put(@, material, FAdd(Get(@, material, 0), x0_units)),
       !.by_material_lambdaI = Put(@, material, FAdd(Get(@, material, 0), li_units)),
       !.total_length_cm     = FAdd(@, tcm),
       !.total_cost_chf      = FAdd(@, chf),
       !.total_X0            = FAdd(@, x0_units),
       !.total_lambdaI       = FAdd(@, li_units)]

\* add_ok reading X0 and lambdaI as they were when the module was loaded.
add_ok_props_at_import(l, material, thickness_cm, count) ==
    Only({accumulate(l, material, tcm,
                     cost_of_layer(tcm, material, l.area_m2),
                     FDiv(tcm, Get(InitProp, material, MATERIAL_PROP[material]).X0_cm),
                     FDiv(tcm, Get(InitProp, material, MATERIAL_PROP[material]).lambdaI_cm)) :
            tcm \in {FMul(thickness_cm, FromInt(count))}})

\* add past _check_material: total_thickness_cm = thickness_cm * count, its
\* cost, X0 units and lambdaI units from the catalog as it is now.
add_ok(l, material, thickness_cm, count) ==
    Only({accumulate(l, material, tcm,
                     cost_of_layer(tcm, material, l.area_m2),
                     FDiv(tcm, MATERIAL_PROP[material].X0_cm),
                     FDiv(tcm, MATERIAL_PROP[material].lambdaI_cm)) :
            tcm \in {FMul(thickness_cm, FromInt(count))}})

\* add that counts the length before it checks the material.
add_length_before_check(l, material, thickness_cm, count) ==
    IF check_material(material)
    THEN [raised |-> FALSE, ct |-> add_ok(l, material, thickness_cm, count), adds |-> 1]
    ELSE [raised |-> TRUE,
          ct |-> [l EXCEPT !.total_length_cm = FAdd(@, FMul(thickness_cm, FromInt(count)))],
          adds |-> 0]

\* add(material, thickness_cm, count): the ledger it leaves and whether it
\* raised KeyError (before changing anything).
add(l, material, thickness_cm, count) ==
    IF check_material(material)
    THEN [raised |-> FALSE, ct |-> add_ok(l, material, thickness_cm, count), adds |-> 1]
    ELSE [raised |-> TRUE, ct |-> l, adds |-> 0]

\* A run of add calls, items a sequence of <<material, thickness, count>>:
\* the first KeyError ends it and keeps what the earlier calls added
\* (adds: how many calls returned).
RECURSIVE add_from(_, _, _)
add_from(l, items, k) ==
    IF k > Len(items) THEN [raised |-> FALSE, ct |-> l, adds |-> Len(items)]
    ELSE Only({IF r.raised THEN [raised |-> TRUE, ct |-> r.ct, adds |-> k - 1]
               ELSE add_from(r.ct, items, k + 1) :
                 r \in {add(l, items[k][1], items[k][2], items[k][3])}})

add_all(l, items) == Only({add_from(l, its, 1) : its \in {items}})

\* add_pair that records the first material only.
add_pair_first_only(l, m1, t1, m2, t2, count) == add_all(l, <<<<m1, t1, count>>>>)

\* add_pair((m1, t1, m2, t2), count)
add_pair(l, m1, t1, m2, t2, count) ==
    add_all(l, <<<<m1, t1, count>>, <<m2, t2, count>>>>)

\* spec repeated count times, each entry added with count = 1
period_items(spec, count) ==
    [i \in 1..(IF count > 0 THEN count * Len(spec) ELSE 0) |->
        <<spec[((i - 1) % Len(spec)) + 1][1], spec[((i - 1) % Len(spec)) + 1][2], 1>>]

\* add_period(spec, count)
add_period(l, spec, count) == add_all(l, period_items(spec, count))

\* Materials in the ledger: the keys of the four accumulators together.
mats(l) ==
    DOMAIN l.by_material_cm \cup DOMAIN l.by_material_chf
      \cup DOMAIN l.by_material_X0 \cup DOMAIN l.by_material_lambdaI

\* summary(): the returned snapshot.  Catalog values are read as it runs.
summary(l) ==
    [area_m2 |-> l.area_m2,
     by_material |->
        [m \in mats(l) |->
            [total_cm |-> Get(l.by_material_cm, m, 0),
             total_X0 |-> Get(l.by_material_X0, m, 0),
             total_lambdaI |-> Get(l.by_material_lambdaI, m, 0),
             total_cost_chf |-> Get(l.by_material_chf, m, 0),
             price_chf_per_cm_m2 |-> COST_CHF_PER_CM_M2[m],
             X0_cm |-> MATERIAL_PROP[m].X0_cm,
             lambdaI_cm |-> MATERIAL_PROP[m].lambdaI_cm]],
     total_length_cm |-> l.total_length_cm,
     total_X0 |-> l.total_X0,
     total_lambdaI |-> l.total_lambdaI,
     total_cost_chf |-> l.total_cost_chf]

\* ------------------------------------------------------ GeometryDescriptor
\* Layer(thickness_cm, material, sensitive)
Layer(thickness_cm, material, sensitive) ==
    [thickness_cm |-> thickness_cm, material |-> material, sensitive |-> sensitive]

\* gd.addLayer(thickness_cm, material, sensitive): append, no validation.
addLayer(layers, thickness_cm, material, sensitive) ==
    Append(layers, Layer(thickness_cm, material, sensitive))

\* --------------------------------------------------------------- builders
\* A builder works through groups of layers: it appends the layers of a
\* group to the geometry and then, given a cost tracker, adds each of them
\* to it (count = 1), in the same order.  A KeyError from add ends the call:
\* the group's layers are in the geometry, the ledger holds what was added.
RECURSIVE append_from(_, _, _)
append_from(layers, group, k) ==
    IF k > Len(group) THEN layers
    ELSE Only({append_from(g2, group, k + 1) :
                 g2 \in {addLayer(layers, group[k].thickness_cm, group[k].material,
                                  group[k].sensitive)}})

append_all(layers, group) == append_from(layers, group, 1)

\* add_group that mirrors only the first layer of the group.
add_group_first_only(l, group) ==
    add_all(l, [i \in 1..(IF Len(group) > 0 THEN 1 ELSE 0) |->
                    <<group[i].material, group[i].thickness_cm, 1>>])

\* add_group that records the layers of the group back to front.
add_group_reversed(l, group) ==
    add_all(l, [i \in 1..Len(group) |->
                    <<group[Len(group) + 1 - i].material,
                      group[Len(group) + 1 - i].thickness_cm, 1>>])

\* the add calls for the layers of one group
add_group(l, group) ==
    add_all(l, [i \in 1..Len(group) |-> <<group[i].material, group[i].thickness_cm, 1>>])

RECURSIVE run_from(_, _, _, _, _)
run_from(layers, l, groups, k, tracked) ==
    IF k > Len(groups)
    THEN [raised |-> FALSE, gd |-> layers, ct |-> l,
          adds |-> IF tracked THEN Len(layers) ELSE 0]
    ELSE Only({IF ~tracked THEN run_from(g2, l, groups, k + 1, tracked)
               ELSE Only({IF r.raised
                          THEN [raised |-> TRUE, gd |-> g2, ct |-> r.ct,
                                adds |-> Len(layers) + r.adds]
                          ELSE run_from(g2, r.ct, groups, k + 1, tracked) :
                            r \in {add_group(l, groups[k])}}) :
                 g2 \in {append_all(layers, groups[k])}})

run_groups(layers, l, groups, tracked) ==
    Only({run_from(layers, l, gs, 1, tracked) : gs \in {groups}})

\* range(int(n)) repetitions of one group
repeat(group, n) == [i \in 1..n |-> group]

\* add_section that leaves the active layer of each period out.
add_section_absorber_only(n_pairs, t_abs_cm, t_act_cm, absorber, active, sensitive_active_only) ==
    repeat(<<Layer(t_abs_cm, absorber, FALSE)>>, n_pairs)

\* add_section with the two layers of a period in the wrong order.
add_section_active_first(n_pairs, t_abs_cm, t_act_cm, absorber, active, sensitive_active_only) ==
    repeat(<<Layer(t_act_cm, active, sensitive_active_only), Layer(t_abs_cm, absorber, FALSE)>>,
           n_pairs)

\* add_section(n_pairs, t_abs_cm, t_act_cm): per period the absorber layer
\* (not sensitive), then the active layer.
add_section(n_pairs, t_abs_cm, t_act_cm, absorber, active, sensitive_active_only) ==
    repeat(<<Layer(t_abs_cm, absorber, FALSE), Layer(t_act_cm, active, sensitive_active_only)>>,
           n_pairs)

\* n * (a + b) with n a Python int
pairs_len(n, a, b) == FMul(FromInt(n), FAdd(a, b))

\* ((front + mid) + back) lengths of the three graded sections
hcal_len(p) ==
    FAdd(FAdd(pairs_len(p.front_pairs, p.fe_front, p.sc_front),
              pairs_len(p.mid_pairs, p.fe_mid, p.sc_mid)),
         pairs_len(p.back_pairs, p.fe_back, p.sc_back))

\* the three graded sections, front to back
hcal_groups(p) ==
    add_section(p.front_pairs, p.fe_front, p.sc_front, p.absorber, p.active, p.sensitive_active_only)
    \o add_section(p.mid_pairs, p.fe_mid, p.sc_mid, p.absorber, p.active, p.sensitive_active_only)
    \o add_section(p.back_pairs, p.fe_back, p.sc_back, p.absorber, p.active, p.sensitive_active_only)

\* What a builder call leaves: exc is "" when it returned (gd, specs).
\* frame: the builder's own gd as the call ended, how many of its layers the
\* ledger had recorded, and whether the call ended inside a ledger add.
Returned(r, sp) ==
    [exc |-> "", gd |-> r.gd, ct |-> r.ct, specs |-> sp, adds |-> r.adds,
     frame |-> [gd |-> r.gd, adds |-> r.adds, in_add |-> FALSE]]

Raised(name, r) ==
    [exc |-> name, gd |-> <<>>, ct |-> r.ct, specs |-> <<>>, adds |-> r.adds,
     frame |-> [gd |-> r.gd, adds |-> r.adds, in_add |-> r.raised]]

\* lam_pair(t_abs_cm, t_act_cm) of Variant A
lam_pair(t_abs_cm, t_act_cm, absorber, active) ==
    FAdd(FDiv(t_abs_cm, LAMBDA_INT_CM[absorber]), FDiv(t_act_cm, LAMBDA_INT_CM[active]))

\* ecal_len = total_X0 * X0_cm of Variant A
ecal_len_v1(p) == FMul(p.total_X0, p.X0_cm)

\* ecal_slice with the division by the slice count forgotten.
ecal_slice_v1_undivided(p) == ecal_len_v1(p)

\* ecal_slice = ecal_len / ecal_slices of Variant A (ecal_slices # 0)
ecal_slice_v1(p) == FDiv(ecal_len_v1(p), FromInt(p.ecal_slices))

\* Variant A: build_ecal_pbwo4_26X0_then_graded_fe_scint_hcal_200cm_v1
build_v1(p, l) ==
    LET ecal_len_cm == ecal_len_v1(p)
    IN  IF p.ecal_slices = 0 THEN Raised("ZeroDivisionError",
                                          [raised |-> FALSE, gd |-> <<>>, ct |-> l, adds |-> 0])
        ELSE
        LET ecal_slice == ecal_slice_v1(p)
            groups == repeat(<<Layer(ecal_slice, p.ecal_material, TRUE)>>, p.ecal_slices)
                      \o hcal_groups(p)
            hcal_len_cm == hcal_len(p)
            total_len_cm == FAdd(ecal_len_cm, hcal_len_cm)
        IN  Only({
            IF r.raised THEN Raised("KeyError", r)
            ELSE IF {p.ecal_material, p.absorber, p.active} \subseteq DOMAIN LAMBDA_INT_CM
            THEN LET ecal_lambda == FDiv(ecal_len_cm, LAMBDA_INT_CM[p.ecal_material])
                     lam_front == FMul(FromInt(p.front_pairs),
                                       lam_pair(p.fe_front, p.sc_front, p.absorber, p.active))
                     lam_mid   == FMul(FromInt(p.mid_pairs),
                                       lam_pair(p.fe_mid, p.sc_mid, p.absorber, p.active))
                     lam_back  == FMul(FromInt(p.back_pairs),
                                       lam_pair(p.fe_back, p.sc_back, p.absorber, p.active))
                     hcal_lambda == FAdd(FAdd(lam_front, lam_mid), lam_back)
                 IN  Returned(r,
                        [ecal_len_cm |-> ecal_len_cm, ecal_slice_cm |-> ecal_slice,
                         ecal_lambda |-> ecal_lambda,
                         front_pairs |-> FromInt(p.front_pairs), fe_front |-> p.fe_front,
                         sc_front |-> p.sc_front,
                         mid_pairs |-> FromInt(p.mid_pairs), fe_mid |-> p.fe_mid,
                         sc_mid |-> p.sc_mid,
                         back_pairs |-> FromInt(p.back_pairs), fe_back |-> p.fe_back,
                         sc_back |-> p.sc_back,
                         hcal_len_cm |-> hcal_len_cm, hcal_lambda |-> hcal_lambda,
                         total_len_cm |-> total_len_cm,
                         total_lambda |-> FAdd(ecal_lambda, hcal_lambda)])
            ELSE Raised("KeyError", r)
            : r \in {run_groups(<<>>, l, groups, p.tracked)}})

\* Variant B: build_pb_scint_ecal_then_graded_fe_scint_hcal_200cm_v2
build_v2(p, l) ==
    LET groups == repeat(<<Layer(p.pb_per_pair_cm, p.ecal_absorber, FALSE),
                           Layer(p.sc_per_pair_cm, p.ecal_active, TRUE)>>, p.ecal_pairs)
                  \o hcal_groups(p)
        ecal_len_cm == FMul(FromInt(p.ecal_pairs), FAdd(p.pb_per_pair_cm, p.sc_per_pair_cm))
        hcal_len_cm == hcal_len(p)
    IN  Only({
        IF r.raised THEN Raised("KeyError", r)
        ELSE Returned(r,
                [ecal_pairs |-> FromInt(p.ecal_pairs),
                 pb_per_pair_cm |-> p.pb_per_pair_cm, sc_per_pair_cm |-> p.sc_per_pair_cm,
                 ecal_absorber |-> p.ecal_absorber, ecal_active |-> p.ecal_active,
                 ecal_len_cm |-> ecal_len_cm,
                 front_pairs |-> FromInt(p.front_pairs), fe_front |-> p.fe_front,
                 sc_front |-> p.sc_front,
                 mid_pairs |-> FromInt(p.mid_pairs), fe_mid |-> p.fe_mid,
                 sc_mid |-> p.sc_mid,
                 back_pairs |-> FromInt(p.back_pairs), fe_back |-> p.fe_back,
                 sc_back |-> p.sc_back,
                 hcal_len_cm |-> hcal_len_cm,
                 total_len_cm |-> FAdd(ecal_len_cm, hcal_len_cm),
                 ecal_slice_cm |-> p.sc_per_pair_cm])
        : r \in {run_groups(<<>>, l, groups, p.tracked)}})

\* The shim tolerance of Variant C (the literal 1e-6), in grid units.
EPS == 1

\* ecal_len_v4 that leaves the end-cap out of the ECAL length.
ecal_len_v4_triplets_only(p) ==
    FMul(FromInt(p.ecal_pairs), FAdd(FAdd(p.pb_cm, p.sc_cm), p.pbwo4_cm))

\* ecal_len of Variant C: the triplets, plus the end-cap when asked for
ecal_len_v4(p) ==
    LET triplets == FMul(FromInt(p.ecal_pairs), FAdd(FAdd(p.pb_cm, p.sc_cm), p.pbwo4_cm))
    IN  IF p.add_scint_endcap THEN FAdd(triplets, p.sc_cm) ELSE triplets

\* total_len of Variant C before the shim
built_len_v4(p) ==
    FAdd(FAdd(FAdd(ecal_len_v4(p),
                   pairs_len(p.front_pairs, p.fe_front, p.sc_front)),
              pairs_len(p.mid_pairs, p.fe_mid, p.sc_mid)),
         pairs_len(p.back_pairs, p.fe_back, p.sc_back))

\* leftover = target_total_len_cm - total_len
leftover_v4(p) == FSub(p.target_total_len_cm, built_len_v4(p))

\* shim_v4 with the tolerance forgotten: any positive leftover is shimmed.
shim_v4_no_tolerance(p) == leftover_v4(p) > 0

\* the shim is appended
shim_v4(p) == leftover_v4(p) > EPS

\* total_len of Variant C as reported
total_len_v4(p) ==
    IF shim_v4(p) THEN FAdd(built_len_v4(p), leftover_v4(p)) ELSE built_len_v4(p)

\* Variant C: build_triple_ecal_then_fe_scint_hcal_2m_v4_2
\* (trans_pairs, fe_trans, sc_trans are front_pairs, fe_front, sc_front of p;
\*  hcal_absorber, hcal_active are absorber, active of p)
build_v4(p, l) ==
    LET groups == repeat(<<Layer(p.pb_cm, p.ecal_pb, FALSE),
                           Layer(p.sc_cm, p.ecal_scint, TRUE),
                           Layer(p.pbwo4_cm, p.ecal_pbwo4, FALSE)>>, p.ecal_pairs)
                  \o (IF p.add_scint_endcap
                      THEN <<<<Layer(p.sc_cm, p.ecal_scint, TRUE)>>>> ELSE <<>>)
                  \o hcal_groups(p)
                  \o (IF shim_v4(p)
                      THEN <<<<Layer(leftover_v4(p), p.absorber, FALSE)>>>> ELSE <<>>)
    IN  Only({
        IF r.raised THEN Raised("KeyError", r)
        ELSE Returned(r,
                [ecal_pairs |-> FromInt(p.ecal_pairs),
                 pb_cm |-> p.pb_cm, sc_cm |-> p.sc_cm, pbwo4_cm |-> p.pbwo4_cm,
                 scint_endcap |-> p.add_scint_endcap,
                 ecal_len_cm |-> ecal_len_v4(p),
                 trans_pairs |-> FromInt(p.front_pairs), fe_trans |-> p.fe_front,
                 sc_trans |-> p.sc_front,
                 mid_pairs |-> FromInt(p.mid_pairs), fe_mid |-> p.fe_mid,
                 sc_mid |-> p.sc_mid,
                 back_pairs |-> FromInt(p.back_pairs), fe_back |-> p.fe_back,
                 sc_back |-> p.sc_back,
                 total_len_cm |-> total_len_v4(p),
                 ecal_slice_cm |-> p.sc_cm])
        : r \in {run_groups(<<>>, l, groups, p.tracked)}})

\* ----------------------------------------------------------------- inputs
\* Transverse areas a caller constructs a CostTracker with, m^2.
Areas == {Lit(1, 4), Lit(2, 1)}

\* Materials the calls below name.
AddMaterials == {"G4_Pb", "G4_Fe", Unknown}

\* Thickness (cm) and repeat count of direct ledger calls.
AddArgs == {<<Lit(15, 10), 1>>, <<Lit(275, 100), 3>>}

\* Overrides a caller makes: a new price, new X0 and lambdaI.
OverrideMaterials == {"G4_Fe", Unknown}

OverridePrices == {Lit(80, 1)}

OverrideProps == {[X0_cm |-> Lit(3, 1), lambdaI_cm |-> Lit(1, 2)]}

\* Second material and repeat count of add_pair and add_period calls.
PairArgs == {<<"G4_POLYSTYRENE", 2>>, <<Unknown, 2>>, <<"G4_POLYSTYRENE", 0>>,
             <<"G4_POLYSTYRENE", 1>>}

PeriodArgs == {<<"G4_POLYSTYRENE", 2>>, <<Unknown, 2>>, <<"G4_POLYSTYRENE", 0>>}

\* The keyword defaults of Variant A.
DefaultsV1 ==
    [total_X0 |-> Lit(26, 1), X0_cm |-> Lit(89, 100), ecal_slices |-> 30,
     ecal_material |-> "G4_PbWO4",
     front_pairs |-> 16, fe_front |-> Lit(8, 10), sc_front |-> Lit(8, 10),
     mid_pairs |-> 32, fe_mid |-> Lit(12, 10), sc_mid |-> Lit(6, 10),
     back_pairs |-> 47, fe_back |-> Lit(15, 10), sc_back |-> Lit(5, 10),
     absorber |-> "G4_Fe", active |-> "G4_POLYSTYRENE",
     sensitive_active_only |-> TRUE, tracked |-> FALSE]

\* The keyword defaults of Variant B.
DefaultsV2 ==
    [ecal_pairs |-> 60, pb_per_pair_cm |-> Lit(20, 100), sc_per_pair_cm |-> Lit(20, 100),
     ecal_absorber |-> "G4_Pb", ecal_active |-> "G4_POLYSTYRENE",
     front_pairs |-> 18, fe_front |-> Lit(5, 10), sc_front |-> Lit(10, 10),
     mid_pairs |-> 28, fe_mid |-> Lit(10, 10), sc_mid |-> Lit(7, 10),
     back_pairs |-> 50, fe_back |-> Lit(15, 10), sc_back |-> Lit(5, 10),
     absorber |-> "G4_Fe", active |-> "G4_POLYSTYRENE",
     sensitive_active_only |-> TRUE, tracked |-> FALSE]

\* The keyword defaults of Variant C.
DefaultsV4 ==
    [ecal_pairs |-> 60, pb_cm |-> Lit(15, 100), sc_cm |-> Lit(20, 100), pbwo4_cm |-> Lit(10, 100),
     add_scint_endcap |-> TRUE,
     ecal_pb |-> "G4_Pb", ecal_scint |-> "G4_POLYSTYRENE", ecal_pbwo4 |-> "G4_PbWO4",
     front_pairs |-> 8, fe_front |-> Lit(30, 100), sc_front |-> Lit(120, 100),
     mid_pairs |-> 24, fe_mid |-> Lit(100, 100), sc_mid |-> Lit(70, 100),
     back_pairs |-> 50, fe_back |-> Lit(150, 100), sc_back |-> Lit(50, 100),
     absorber |-> "G4_Fe", active |-> "G4_POLYSTYRENE",
     sensitive_active_only |-> TRUE,
     target_total_len_cm |-> Lit(200, 1), tracked |-> FALSE]

\* Calls of Variant A.
V1Inputs ==
    {[DefaultsV1 EXCEPT !.total_X0 = x, !.ecal_slices = n, !.ecal_material = em,
                        !.front_pairs = c[1], !.mid_pairs = c[2], !.back_pairs = c[3],
                        !.tracked = tr] :
        x \in {Lit(325, 100)}, n \in {0, 3}, em \in {"G4_PbWO4", Unknown},
        c \in {<<1, 1, 0>>}, tr \in BOOLEAN}

\* Calls of Variant B; one of them with a negative period count, one with
\* an active material the catalog does not know.
V2Inputs ==
    {[DefaultsV2 EXCEPT !.ecal_pairs = n, !.pb_per_pair_cm = t, !.ecal_absorber = ea,
                        !.front_pairs = c[1], !.mid_pairs = c[2], !.back_pairs = c[3],
                        !.tracked = tr] :
        n \in {2}, t \in {Lit(175, 100)}, ea \in {"G4_Pb", Unknown},
        c \in {<<2, 0, 1>>}, tr \in BOOLEAN}
    \cup {[DefaultsV2 EXCEPT !.ecal_pairs = 2, !.front_pairs = -1, !.mid_pairs = 1,
                             !.back_pairs = 0]}
    \cup {[DefaultsV2 EXCEPT !.ecal_pairs = 2, !.front_pairs = 1, !.mid_pairs = 0,
                             !.back_pairs = 1, !.active = Unknown, !.tracked = TRUE]}

\* Calls of Variant C; among them one without the end-cap, one without
\* ECAL triplets and with every active layer insensitive, one with a crystal
\* material the catalog does not know.
V4Inputs ==
    {[DefaultsV4 EXCEPT !.ecal_pairs = n, !.pb_cm = t, !.add_scint_endcap = ec,
                        !.ecal_pbwo4 = em,
                        !.front_pairs = c[1], !.mid_pairs = c[2], !.back_pairs = c[3],
                        !.target_total_len_cm = tg, !.tracked = tr] :
        n \in {1}, t \in {Lit(170, 100)}, ec \in {TRUE}, em \in {"G4_PbWO4"},
        c \in {<<1, 1, 0>>},
        tg \in {Lit(5, 1), Lit(87, 16), Lit(20, 1), Lit(2175, 100)}, tr \in BOOLEAN}
    \cup {[DefaultsV4 EXCEPT !.ecal_pairs = n, !.pb_cm = Lit(170, 100),
                             !.add_scint_endcap = ec, !.ecal_pbwo4 = em,
                             !.front_pairs = 1, !.mid_pairs = 1, !.back_pairs = 0,
                             !.sensitive_active_only = sao,
                             !.target_total_len_cm = Lit(20, 1), !.tracked = TRUE] :
            <<n, ec, em, sao>> \in {<<2, FALSE, "G4_PbWO4", TRUE>>,
                                    <<0, TRUE, "G4_PbWO4", FALSE>>,
                                    <<1, TRUE, Unknown, TRUE>>}}

\* ------------------------------------------------------------------ state
Call(op, arg, exc) == [op |-> op, arg |-> arg, exc |-> exc]

\* No builder call is the last call.
NoFrame == [gd |-> <<>>, adds |-> 0, in_add |-> FALSE]

Init ==
    /\ COST_CHF_PER_CM_M2 = InitCost
    /\ MATERIAL_PROP = InitProp
    /\ \E a \in Areas : ct = CostTracker(a)
    /\ gd = <<>>
    /\ specs = <<>>
    /\ out = <<>>
    /\ last = Call("init", <<>>, "")
    /\ mirror = <<>>
    /\ onlyBuilt = TRUE
    /\ nAdds = 0
    /\ nOps = 0
    /\ frame = NoFrame

\* One more call, within the bound on the length of a run.
MayCall == nOps < MaxOps

Step == MayCall /\ nOps' = nOps + 1

\* ct = CostTracker(area_m2=a): the caller starts a fresh ledger.
NewTracker ==
    \E a \in Areas :
        /\ ct' = CostTracker(a)
        /\ mirror' = <<>>
        /\ onlyBuilt' = TRUE
        /\ nAdds' = 0
        /\ last' = Call("CostTracker", a, "")
        /\ frame' = NoFrame
        /\ Step
        /\ UNCHANGED <<COST_CHF_PER_CM_M2, MATERIAL_PROP, gd, specs, out>>

\* ct.set_price(material, chf_per_cm_m2)
SetPrice ==
    \E m \in OverrideMaterials, v \in OverridePrices :
        /\ COST_CHF_PER_CM_M2' = Put(COST_CHF_PER_CM_M2, m, v)
        /\ last' = Call("set_price", <<m, v>>, "")
        /\ frame' = NoFrame
        /\ Step
        /\ UNCHANGED <<MATERIAL_PROP, ct, gd, specs, out, mirror, onlyBuilt, nAdds>>

\* ct.set_material_props(material, X0_cm, lambdaI_cm)
SetMaterialProps ==
    \E m \in OverrideMaterials, v \in OverrideProps :
        /\ MATERIAL_PROP' = Put(MATERIAL_PROP, m, [X0_cm |-> v.X0_cm, lambdaI_cm |-> v.lambdaI_cm])
        /\ last' = Call("set_material_props", <<m, v.X0_cm, v.lambdaI_cm>>, "")
        /\ frame' = NoFrame
        /\ Step
        /\ UNCHANGED <<COST_CHF_PER_CM_M2, ct, gd, specs, out, mirror, onlyBuilt, nAdds>>

\* A direct ledger call leaves result r.
Ledger(op, arg, r) ==
    /\ Step
    /\ ct' = r.ct
    /\ onlyBuilt' = (onlyBuilt /\ r.ct = ct /\ r.adds = 0)
    /\ nAdds' = nAdds + r.adds
    /\ last' = Call(op, arg, IF r.raised THEN "KeyError" ELSE "")
    /\ frame' = NoFrame
    /\ UNCHANGED <<COST_CHF_PER_CM_M2, MATERIAL_PROP, gd, specs, out, mirror>>

\* ct.add(material, thickness_cm, count)
Add ==
    /\ MayCall
    /\ \E m \in AddMaterials, a \in AddArgs :
        \E r \in {add(ct, m, a[1], a[2])} : Ledger("add", <<m, a[1], a[2]>>, r)

\* ct.add_pair((m1, t1, m2, t2), count)
AddPair ==
    /\ MayCall
    /\ \E m1 \in {"G4_Pb"}, t1 \in {Lit(15, 10)}, t2 \in {Lit(1, 1)}, c \in PairArgs :
        \E m2 \in {c[1]}, n \in {c[2]}, r \in {add_pair(ct, m1, t1, c[1], t2, c[2])} :
            Ledger("add_pair", <<m1, t1, m2, t2, n>>, r)

\* ct.add_period(spec, count)
AddPeriod ==
    /\ MayCall
    /\ \E m1 \in {"G4_Pb"}, t1 \in {Lit(15, 10)}, t2 \in {Lit(1, 1)}, c \in PeriodArgs :
        \E m2 \in {c[1]}, n \in {c[2]},
           r \in {add_period(ct, <<<<m1, t1>>, <<c[1], t2>>>>, c[2])} :
            Ledger("add_period", <<<<<<m1, t1>>, <<m2, t2>>>>, n>>, r)

\* summary() that also starts the ledger afresh.
Summary_clearing ==
    /\ out' = summary(ct)
    /\ ct' = CostTracker(ct.area_m2)
    /\ last' = Call("summary", <<>>, "")
    /\ frame' = NoFrame
    /\ Step
    /\ UNCHANGED <<COST_CHF_PER_CM_M2, MATERIAL_PROP, gd, specs, mirror, onlyBuilt, nAdds>>

\* ct.summary()
Summary ==
    /\ out' = summary(ct)
    /\ last' = Call("summary", <<>>, "")
    /\ frame' = NoFrame
    /\ Step
    /\ UNCHANGED <<COST_CHF_PER_CM_M2, MATERIAL_PROP, ct, gd, specs, mirror, onlyBuilt, nAdds>>

\* A builder call with arguments p leaves result r.
Build(op, p, r) ==
    /\ Step
    /\ ct' = r.ct
    /\ gd' = IF r.exc = "" THEN r.gd ELSE gd
    /\ specs' = IF r.exc = "" THEN r.specs ELSE specs
    /\ mirror' = IF p.tracked /\ r.exc = "" THEN mirror \o r.gd ELSE mirror
    /\ onlyBuilt' = (onlyBuilt /\ (r.exc = "" \/ r.ct = ct))
    /\ nAdds' = nAdds + r.adds
    /\ last' = Call(op, p, r.exc)
    /\ frame' = r.frame
    /\ UNCHANGED <<COST_CHF_PER_CM_M2, MATERIAL_PROP, out>>

BuildV1 == MayCall /\ \E p \in V1Inputs : \E r \in {build_v1(p, ct)} : Build("build_v1", p, r)

BuildV2 == MayCall /\ \E p \in V2Inputs : \E r \in {build_v2(p, ct)} : Build("build_v2", p, r)

BuildV4 == MayCall /\ \E p \in V4Inputs : \E r \in {build_v4(p, ct)} : Build("build_v4", p, r)

Next ==
    \/ NewTracker
    \/ SetPrice
    \/ SetMaterialProps
    \/ Add
    \/ AddPair
    \/ AddPeriod
    \/ Summary
    \/ BuildV1
    \/ BuildV2
    \/ BuildV4

Spec == Init /\ [][Next]_vars

\* ------------------------------------------------------------- properties
\* a and b are at most k float spacings apart, the spacing taken at the
\* larger of the two.
Within(a, b, k) == Abs(a - b) <= k * Ulp(Max(Abs(a), Abs(b)))

\* Every value sum(d.values()) can take, over the orders the entries of d
\* can be summed in.
RECURSIVE Sums(_, _)
Sums(d, S) ==
    IF S = {} THEN {0}
    ELSE UNION {{FAdd(x, d[m]) : x \in Sums(d, S \ {m})} : m \in S}

AllSums(d) == Sums(d, DOMAIN d)

\* C1 as stated: each of the four ledger totals is the sum of its
\* per-material accumulators, whatever the order the sum is taken in.
C1_TotalsAreSums ==
    /\ ct.total_length_cm \in AllSums(ct.by_material_cm)
    /\ ct.total_cost_chf \in AllSums(ct.by_material_chf)
    /\ ct.total_X0 \in AllSums(ct.by_material_X0)
    /\ ct.total_lambdaI \in AllSums(ct.by_material_lambdaI)

\* C1: after any sequence of successful add calls each of the four ledger
\* totals equals the sum of the corresponding per-material accumulators up
\* to floating-point rounding: with n add calls returned, the two differ by
\* at most n - 1 float spacings, in whatever order the sum is taken (and
\* are both zero in a fresh ledger).
C1_TotalsAreSumsRounded ==
    /\ \A b \in AllSums(ct.by_material_cm) :
          Within(ct.total_length_cm, b, Max(nAdds, 1) - 1)
    /\ \A b \in AllSums(ct.by_material_chf) :
          Within(ct.total_cost_chf, b, Max(nAdds, 1) - 1)
    /\ \A b \in AllSums(ct.by_material_X0) :
          Within(ct.total_X0, b, Max(nAdds, 1) - 1)
    /\ \A b \in AllSums(ct.by_material_lambdaI) :
          Within(ct.total_lambdaI, b, Max(nAdds, 1) - 1)

\* Several adds of several materials have returned, and a total differs
\* from every sum of its accumulators.
C1_Witness ==
    /\ nAdds >= 3
    /\ Cardinality(DOMAIN ct.by_material_cm) >= 2
    /\ ct.total_cost_chf > 0
    /\ ct.total_cost_chf \notin AllSums(ct.by_material_chf)

\* range(int(n)) runs max(n, 0) times.
Times(n) == IF n > 0 THEN n ELSE 0

\* The last call was builder op and it returned.
ReturnedFrom(op) == last.op = op /\ last.exc = ""

\* Layers of Variant C before the shim.
LayersBeforeShim(p) ==
    3 * Times(p.ecal_pairs) + (IF p.add_scint_endcap THEN 1 ELSE 0)
      + 2 * (Times(p.front_pairs) + Times(p.mid_pairs) + Times(p.back_pairs))

\* C2 as stated: Variant C appends no shim and reports the summed length L
\* when target - L <= 1e-6, and otherwise appends exactly one non-sensitive
\* hcal_absorber layer of thickness target - L as the last layer and
\* reports total_len_cm equal to the target.
C2_ShimReachesTarget ==
    ReturnedFrom("build_v4") =>
        LET p == last.arg
            L == built_len_v4(p)
            n == LayersBeforeShim(p)
        IN  IF FSub(p.target_total_len_cm, L) <= EPS
            THEN Len(gd) = n /\ specs.total_len_cm = L
            ELSE /\ Len(gd) = n + 1
                 /\ gd[n + 1] = Layer(FSub(p.target_total_len_cm, L), p.absorber, FALSE)
                 /\ specs.total_len_cm = p.target_total_len_cm

\* C2: Variant C appends no shim and reports the summed length L when
\* target - L <= 1e-6; otherwise it appends exactly one non-sensitive
\* hcal_absorber layer of thickness target - L (as a float) as the last
\* layer and reports total_len_cm = L + that thickness, which is the target
\* up to rounding: within one float spacing of it.
C2_ShimReachesTargetRounded ==
    ReturnedFrom("build_v4") =>
        LET p == last.arg
            L == built_len_v4(p)
            n == LayersBeforeShim(p)
        IN  IF FSub(p.target_total_len_cm, L) <= EPS
            THEN Len(gd) = n /\ specs.total_len_cm = L
            ELSE /\ Len(gd) = n + 1
                 /\ gd[n + 1] = Layer(FSub(p.target_total_len_cm, L), p.absorber, FALSE)
                 /\ specs.total_len_cm = FAdd(L, gd[n + 1].thickness_cm)
                 /\ Within(specs.total_len_cm, p.target_total_len_cm, 1)

\* Variant C returned a geometry ending in a shim, and the length it
\* reports is not the target.
C2_Witness ==
    /\ ReturnedFrom("build_v4")
    /\ Len(gd) = LayersBeforeShim(last.arg) + 1
    /\ gd[Len(gd)].material = last.arg.absorber
    /\ specs.total_len_cm # last.arg.target_total_len_cm

\* Variant C returned with the leftover exactly at the tolerance: no shim.
C2_WitnessNoShim ==
    /\ ReturnedFrom("build_v4")
    /\ FSub(last.arg.target_total_len_cm, built_len_v4(last.arg)) = EPS
    /\ Len(gd) = LayersBeforeShim(last.arg)

\* sum(L.thickness_cm for L in layers[i..j]), added left to right.
RECURSIVE SumFrom(_, _, _, _)
SumFrom(layers, i, j, acc) ==
    IF i > j THEN acc
    ELSE Only({SumFrom(layers, i + 1, j, a2) : a2 \in {FAdd(acc, layers[i].thickness_cm)}})

SumLayers(layers, i, j) == SumFrom(layers, i, j, 0)

Builders == {"build_v1", "build_v2", "build_v4"}

\* Layers of the ECAL part (end-cap included) of a geometry built from p.
EcalLayers(op, p) ==
    CASE op = "build_v1" -> Times(p.ecal_slices)
      [] op = "build_v2" -> 2 * Times(p.ecal_pairs)
      [] op = "build_v4" -> 3 * Times(p.ecal_pairs) + (IF p.add_scint_endcap THEN 1 ELSE 0)

\* No period count of p is negative.
CountsNonNegative(op, p) ==
    /\ p.front_pairs >= 0 /\ p.mid_pairs >= 0 /\ p.back_pairs >= 0
    /\ op = "build_v1" => p.ecal_slices >= 0
    /\ op # "build_v1" => p.ecal_pairs >= 0

\* The closed-form length n x (t_abs + t_act) of a section.
SectionLen(n, t) == FMul(FromInt(n), FAdd(t[1], t[2]))

\* The three HCAL sections of a call with arguments p, front to back:
\* period count and thicknesses as passed, first and last layer in a
\* geometry whose ECAL part has e layers.
Sections(p, e) ==
    LET f == 2 * Times(p.front_pairs)
        m == 2 * Times(p.mid_pairs)
        b == 2 * Times(p.back_pairs)
    IN  <<[n |-> p.front_pairs, t |-> <<p.fe_front, p.sc_front>>, from |-> e + 1, to |-> e + f],
          [n |-> p.mid_pairs, t |-> <<p.fe_mid, p.sc_mid>>, from |-> e + f + 1, to |-> e + f + m],
          [n |-> p.back_pairs, t |-> <<p.fe_back, p.sc_back>>,
           from |-> e + f + m + 1, to |-> e + f + m + b]>>

\* C3 as stated: for each variant and every call that returns, each
\* section's closed-form length n x (t_absorber + t_active) equals the sum
\* of thickness over the layers appended for that section, and specs
\* total_len_cm equals the sum of thickness over all layers of the geometry.
C3_ClosedFormsAreLayerSums ==
    \A op \in Builders :
        ReturnedFrom(op) =>
            LET S == Sections(last.arg, EcalLayers(op, last.arg))
            IN  /\ \A k \in 1..3 :
                      SectionLen(S[k].n, S[k].t) = SumLayers(gd, S[k].from, S[k].to)
                /\ specs.total_len_cm = SumLayers(gd, 1, Len(gd))

\* C3: for each variant and every returning call whose period counts are
\* not negative, each section's closed-form length equals the sum of
\* thickness over that section's n periods of two layers up to rounding
\* (within n + 1 float spacings), and specs total_len_cm equals the sum of
\* thickness over all layers of the geometry up to rounding (within as
\* many float spacings as the geometry has layers, plus 10).
C3_ClosedFormsAreLayerSumsRounded ==
    \A op \in Builders :
        (ReturnedFrom(op) /\ CountsNonNegative(op, last.arg)) =>
            LET S == Sections(last.arg, EcalLayers(op, last.arg))
            IN  /\ \A k \in 1..3 :
                      /\ S[k].to <= Len(gd)
                      /\ Within(SectionLen(S[k].n, S[k].t),
                                SumLayers(gd, S[k].from, S[k].to), S[k].n + 1)
                /\ Within(specs.total_len_cm, SumLayers(gd, 1, Len(gd)), Len(gd) + 10)

\* A builder returned a geometry with at least two non-empty HCAL sections
\* whose layers do not sum to the total length it reports.
C3_Witness ==
    /\ \E op \in Builders : ReturnedFrom(op) /\ CountsNonNegative(op, last.arg)
    /\ Cardinality({k \in {"front_pairs", "mid_pairs", "back_pairs"} : last.arg[k] > 0}) >= 2
    /\ specs.total_len_cm # SumLayers(gd, 1, Len(gd))

\* A call was made: this step is one of the operations, not a stutter.
Called(op) == nOps' = nOps + 1 /\ last'.op = op

\* The accumulators other than those of material m are as they were.
OthersKept(m) ==
    \A f \in {"by_material_cm", "by_material_chf", "by_material_X0", "by_material_lambdaI"} :
        \A x \in DOMAIN ct[f] \ {m} : x \in DOMAIN ct'[f] /\ ct'[f][x] = ct[f][x]

\* C4: an override of a price or of X0 / lambdaI leaves every accumulator
\* already in the ledger unchanged, and an add that returns computes its
\* cost, X0 units and lambdaI units from the catalog values in effect as it
\* runs, touching the accumulators of no other material.
C4_OverrideOrdering ==
    [][/\ (COST_CHF_PER_CM_M2' # COST_CHF_PER_CM_M2 \/ MATERIAL_PROP' # MATERIAL_PROP)
            => ct' = ct
       /\ (Called("set_price") \/ Called("set_material_props")) => ct' = ct
       /\ (Called("add") /\ last'.exc = "") =>
            LET m == last'.arg[1]
                tcm == FMul(last'.arg[2], FromInt(last'.arg[3]))
            IN  /\ ct'.by_material_chf[m] =
                      FAdd(Get(ct.by_material_chf, m, 0),
                           FMul(FMul(tcm, ct.area_m2), COST_CHF_PER_CM_M2[m]))
                /\ ct'.by_material_X0[m] =
                      FAdd(Get(ct.by_material_X0, m, 0), FDiv(tcm, MATERIAL_PROP[m].X0_cm))
                /\ ct'.by_material_lambdaI[m] =
                      FAdd(Get(ct.by_material_lambdaI, m, 0),
                           FDiv(tcm, MATERIAL_PROP[m].lambdaI_cm))
                /\ OthersKept(m)]_vars

\* Iron was added, then its price overridden, then iron was added again:
\* the ledger holds the cost of the first add at the price of the module
\* load plus the cost of the second at the overridden price.
C4_Witness ==
    /\ last.op = "add" /\ last.exc = "" /\ last.arg[1] = "G4_Fe"
    /\ nAdds = 2
    /\ COST_CHF_PER_CM_M2["G4_Fe"] # InitCost["G4_Fe"]
    /\ DOMAIN ct.by_material_cm = {"G4_Fe"}
    /\ \E a \in AddArgs :
          LET t1 == FMul(a[1], FromInt(a[2]))
              t2 == FMul(last.arg[2], FromInt(last.arg[3]))
          IN  ct.by_material_chf["G4_Fe"] =
                 FAdd(FMul(FMul(t1, ct.area_m2), InitCost["G4_Fe"]),
                      FMul(FMul(t2, ct.area_m2), COST_CHF_PER_CM_M2["G4_Fe"]))

\* C5 as stated, up to rounding: a Variant A build into a fresh ledger,
\* made after any overrides, reports specs total_lambda equal to the
\* ledger's total_lambdaI (here: within two float spacings per layer, plus
\* 10, which the two always are when no interaction length was overridden).
C5_OverrideSeenByVariantA ==
    (ReturnedFrom("build_v1") /\ last.arg.tracked /\ onlyBuilt /\ mirror = gd) =>
        Within(specs.total_lambda, ct.total_lambdaI, 2 * Len(gd) + 10)

\* Without an override of the interaction lengths the two do agree.
C5_AgreeWithoutOverride ==
    (ReturnedFrom("build_v1") /\ last.arg.tracked /\ onlyBuilt /\ mirror = gd
       /\ \A m \in DOMAIN InitProp : MATERIAL_PROP[m].lambdaI_cm = InitProp[m].lambdaI_cm) =>
        Within(specs.total_lambda, ct.total_lambdaI, 2 * Len(gd) + 10)

\* C6 as stated: no builder ever returns a geometry containing a layer
\* whose material is absent from the catalog.
C6_UnknownMaterialIsFatal ==
    \A op \in Builders :
        ReturnedFrom(op) =>
            \A i \in 1..Len(gd) :
                gd[i].material \in DOMAIN COST_CHF_PER_CM_M2 \cup DOMAIN MATERIAL_PROP

\* C7: add, add_pair and add_period change nothing but the accumulators of
\* the ledger they are called on: the catalog, the geometry and the specs
\* a builder returned and the ledger's area are as before; summary()
\* changes nothing but the snapshot it returns, and a second summary()
\* right after returns the same snapshot.
C7_LedgerFrame ==
    [][/\ (Called("add") \/ Called("add_pair") \/ Called("add_period")) =>
            /\ UNCHANGED <<COST_CHF_PER_CM_M2, MATERIAL_PROP, gd, specs, out>>
            /\ ct'.area_m2 = ct.area_m2
       /\ Called("summary") =>
            /\ UNCHANGED <<COST_CHF_PER_CM_M2, MATERIAL_PROP, ct, gd, specs>>
            /\ out' = summary(ct')]_vars

\* summary() was called on a ledger holding several materials.
C7_Witness ==
    /\ last.op = "summary"
    /\ nAdds >= 2
    /\ Cardinality(DOMAIN ct.by_material_cm) >= 2
    /\ out.total_length_cm = ct.total_length_cm
    /\ out.total_length_cm > 0

\* sum of thickness of the layers of material m, added left to right.
RECURSIVE SumOfFrom(_, _, _, _)
SumOfFrom(layers, m, i, acc) ==
    IF i > Len(layers) THEN acc
    ELSE Only({SumOfFrom(layers, m, i + 1, a2) :
                 a2 \in {IF layers[i].material = m
                         THEN FAdd(acc, layers[i].thickness_cm) ELSE acc}})

SumOf(layers, m) == SumOfFrom(layers, m, 1, 0)

\* C8: while only returning builder calls have written to the ledger since
\* it was created empty, its accumulated length of every material is the
\* sum of thickness of all layers of that material over the geometries
\* those calls returned, its total length the sum of thickness of all their
\* layers (sums taken layer by layer, in call and stacking order), and it
\* holds no other material.
C8_LedgerMirrorsLayers ==
    onlyBuilt =>
        /\ DOMAIN ct.by_material_cm = {mirror[i].material : i \in 1..Len(mirror)}
        /\ \A m \in DOMAIN ct.by_material_cm : ct.by_material_cm[m] = SumOf(mirror, m)
        /\ ct.total_length_cm = SumLayers(mirror, 1, Len(mirror))
        /\ nAdds = Len(mirror)

\* Two builder calls, the later one Variant C with its shim, have returned
\* on one ledger.
C8_Witness ==
    /\ onlyBuilt
    /\ ReturnedFrom("build_v4") /\ last.arg.tracked
    /\ Len(gd) = LayersBeforeShim(last.arg) + 1
    /\ Len(mirror) > Len(gd)
    /\ ct.total_length_cm > 0

\* C9: add(m, t, count = n) on a ledger of area A adds t x n to the length
\* of m and to the total length, t x n x A x price(m) to the cost of m and
\* to the total cost, (t x n) / X0(m) and (t x n) / lambdaI(m) to the X0
\* and lambdaI units of m and in total (on a fresh ledger they are exactly
\* these values), and summary() reports the accumulators as they are.
C9_AddIncrements ==
    [][/\ (Called("add") /\ last'.exc = "") =>
            LET m == last'.arg[1]
                tn == FMul(last'.arg[2], FromInt(last'.arg[3]))
                chf == FMul(FMul(tn, ct.area_m2), COST_CHF_PER_CM_M2[m])
                x0 == FDiv(tn, MATERIAL_PROP[m].X0_cm)
                li == FDiv(tn, MATERIAL_PROP[m].lambdaI_cm)
            IN  /\ ct'.by_material_cm[m] = FAdd(Get(ct.by_material_cm, m, 0), tn)
                /\ ct'.total_length_cm = FAdd(ct.total_length_cm, tn)
                /\ ct'.by_material_chf[m] = FAdd(Get(ct.by_material_chf, m, 0), chf)
                /\ ct'.total_cost_chf = FAdd(ct.total_cost_chf, chf)
                /\ ct'.by_material_X0[m] = FAdd(Get(ct.by_material_X0, m, 0), x0)
                /\ ct'.total_X0 = FAdd(ct.total_X0, x0)
                /\ ct'.by_material_lambdaI[m] = FAdd(Get(ct.by_material_lambdaI, m, 0), li)
                /\ ct'.total_lambdaI = FAdd(ct.total_lambdaI, li)
                /\ nAdds = 0 =>
                      /\ ct'.by_material_cm = (m :> tn) /\ ct'.total_length_cm = tn
                      /\ ct'.by_material_chf = (m :> chf) /\ ct'.total_cost_chf = chf
                      /\ ct'.by_material_X0 = (m :> x0) /\ ct'.total_X0 = x0
                      /\ ct'.by_material_lambdaI = (m :> li) /\ ct'.total_lambdaI = li
       /\ Called("summary") =>
            /\ DOMAIN out'.by_material = DOMAIN ct.by_material_cm
            /\ \A m \in DOMAIN out'.by_material :
                  /\ out'.by_material[m].total_cm = ct.by_material_cm[m]
                  /\ out'.by_material[m].total_cost_chf = ct.by_material_chf[m]
                  /\ out'.by_material[m].total_X0 = ct.by_material_X0[m]
                  /\ out'.by_material[m].total_lambdaI = ct.by_material_lambdaI[m]
            /\ out'.total_length_cm = ct.total_length_cm
            /\ out'.total_cost_chf = ct.total_cost_chf
            /\ out'.total_X0 = ct.total_X0
            /\ out'.total_lambdaI = ct.total_lambdaI]_vars

\* One add with count 3 on a fresh ledger, then summary(): the snapshot
\* holds the one material with a positive cost.
C9_Witness ==
    /\ last.op = "summary"
    /\ nAdds = 1 /\ ~onlyBuilt
    /\ \E m \in DOMAIN out.by_material :
          /\ DOMAIN out.by_material = {m}
          /\ out.by_material[m].total_cm = FMul(Lit(275, 100), FromInt(3))
          /\ out.by_material[m].total_cost_chf = out.total_cost_chf
          /\ out.total_cost_chf > 0

\* C10 as stated: in Variant A the ECAL part of the returned geometry is
\* the first N = ecal_slices layers, all of ecal_material, sensitive and of
\* thickness specs ecal_slice_cm, and their thicknesses sum to
\* total_X0 x X0_cm, reported as specs ecal_len_cm.
C10_EcalSlices ==
    ReturnedFrom("build_v1") =>
        LET p == last.arg
            N == p.ecal_slices
        IN  /\ Len(gd) = N + 2 * (Times(p.front_pairs) + Times(p.mid_pairs) + Times(p.back_pairs))
            /\ \A i \in 1..N : gd[i] = Layer(specs.ecal_slice_cm, p.ecal_material, TRUE)
            /\ specs.ecal_len_cm = FMul(p.total_X0, p.X0_cm)
            /\ SumLayers(gd, 1, N) = specs.ecal_len_cm

\* C10: in Variant A with ecal_slices = N >= 1 the ECAL part of the
\* returned geometry is the first N layers, all of ecal_material, sensitive
\* and of thickness specs ecal_slice_cm = ecal_len_cm / N; specs
\* ecal_len_cm is total_X0 x X0_cm, and the N thicknesses sum to it up to
\* rounding (within N float spacings).
C10_EcalSlicesRounded ==
    (ReturnedFrom("build_v1") /\ last.arg.ecal_slices >= 1) =>
        LET p == last.arg
            N == p.ecal_slices
        IN  /\ Len(gd) = N + 2 * (Times(p.front_pairs) + Times(p.mid_pairs) + Times(p.back_pairs))
            /\ \A i \in 1..N : gd[i] = Layer(specs.ecal_slice_cm, p.ecal_material, TRUE)
            /\ specs.ecal_len_cm = FMul(p.total_X0, p.X0_cm)
            /\ specs.ecal_slice_cm = FDiv(specs.ecal_len_cm, FromInt(N))
            /\ Within(SumLayers(gd, 1, N), specs.ecal_len_cm, N)

\* Variant A returned three ECAL slices that do not sum to ecal_len_cm.
C10_Witness ==
    /\ ReturnedFrom("build_v1")
    /\ last.arg.ecal_slices = 3
    /\ Len(gd) > 3
    /\ SumLayers(gd, 1, 3) # specs.ecal_len_cm

\* C11 in its simplest case, a ledger that has recorded one add (where no
\* rounding separates the two sides): the price, X0 and lambdaI that
\* summary() lists for the material are the values its cost, X0 units and
\* lambdaI units were computed with, so total_cost_chf = total_cm x area x
\* reported price, total_X0 = total_cm / reported X0_cm and total_lambdaI =
\* total_cm / reported lambdaI_cm.
C11_SummaryReportsValuesUsed ==
    (last.op = "summary" /\ nAdds = 1) =>
        \A m \in DOMAIN out.by_material :
            LET s == out.by_material[m]
            IN  /\ s.total_cost_chf =
                       FMul(FMul(s.total_cm, out.area_m2), s.price_chf_per_cm_m2)
                /\ s.total_X0 = FDiv(s.total_cm, s.X0_cm)
                /\ s.total_lambdaI = FDiv(s.total_cm, s.lambdaI_cm)

\* The entries that summary() lists are the catalog's entries at the time of
\* the summary() call.
C11_SummaryReadsCatalogNow ==
    last.op = "summary" =>
        \A m \in DOMAIN out.by_material :
            /\ out.by_material[m].price_chf_per_cm_m2 = COST_CHF_PER_CM_M2[m]
            /\ out.by_material[m].X0_cm = MATERIAL_PROP[m].X0_cm
            /\ out.by_material[m].lambdaI_cm = MATERIAL_PROP[m].lambdaI_cm

\* While no catalog entry of the material has been overridden, the reported
\* values are the ones used.
C11_AgreeWithoutOverride ==
    (/\ last.op = "summary"
     /\ \A m \in DOMAIN out.by_material :
           /\ m \in DOMAIN InitCost
           /\ COST_CHF_PER_CM_M2[m] = InitCost[m]
           /\ MATERIAL_PROP[m] = InitProp[m])
    => C11_SummaryReportsValuesUsed

\* A builder call given a ledger ended inside a ledger add (unknown material).
AddFailed == last.op \in Builders /\ last.exc = "KeyError" /\ frame.in_add

\* The add calls for layers 1..k of a geometry, each with count = 1.
ItemsOf(layers, k) == [i \in 1..k |-> <<layers[i].material, layers[i].thickness_cm, 1>>]

\* How many layers the geometry holds when the add for layer k + 1 fails:
\* the builder appends a whole period, then records its layers.  A period is
\* one ECAL slice (Variant A), an ECAL pair (Variant B), an ECAL triplet or
\* the end-cap alone (Variant C), an absorber/active pair of a graded
\* section, the shim alone.
PeriodEnd(op, p, k) ==
    LET e == EcalLayers(op, p)
        h == 2 * (Times(p.front_pairs) + Times(p.mid_pairs) + Times(p.back_pairs))
    IN  IF k >= e + h THEN k + 1
        ELSE IF k >= e THEN k + 2 - ((k - e) % 2)
        ELSE CASE op = "build_v1" -> k + 1
               [] op = "build_v2" -> 2 * (k \div 2) + 2
               [] op = "build_v4" -> IF k >= 3 * Times(p.ecal_pairs) THEN k + 1
                                     ELSE 3 * (k \div 3) + 3

\* C12 as stated: when a ledger add fails inside a builder call, the ledger
\* has recorded every layer appended to the geometry except the one layer
\* being processed, the failing one.
C12_LayerByLayer == AddFailed => Len(frame.gd) <= frame.adds + 1

\* C12, amended: the builders append period by period and record a period
\* after appending all of it.  When a ledger add fails (unknown material)
\* the call ends at once: the ledger has recorded exactly the layers that the
\* geometry holds before the failing layer, in order, and nothing else; the
\* geometry holds in addition the failing layer and the rest of its period
\* (at most two layers after the failing one: none for an ECAL slice of
\* Variant A, up to the end of the pair, the triplet or the graded-section
\* pair otherwise).
C12_PeriodByPeriod ==
    [][(\E op \in Builders : Called(op)) /\ last'.exc = "KeyError" /\ frame'.in_add
        => LET g == frame'.gd
               k == frame'.adds
           IN  /\ last'.arg.tracked
               /\ k < Len(g)
               /\ Len(g) <= k + 3
               /\ ~check_material(g[k + 1].material)
               /\ \A i \in 1..k : check_material(g[i].material)
               /\ ct' = add_all(ct, ItemsOf(g, k)).ct
               /\ nAdds' = nAdds + k
               /\ Len(g) = PeriodEnd(last'.op, last'.arg, k)]_vars

\* Reached: a tracked Variant B call fails on the active layer of the first
\* HCAL period, after recording five layers; the geometry holds six.
C12_Witness ==
    /\ AddFailed
    /\ last.op = "build_v2"
    /\ frame.adds = 5
    /\ Len(frame.gd) = 6
    /\ ct.total_length_cm > 0

\* Reached: a tracked Variant B call fails on the absorber layer of the
\* first ECAL pair; the geometry holds both layers of the pair, the ledger
\* has recorded neither.
C12_WitnessLag ==
    /\ AddFailed
    /\ last.op = "build_v2"
    /\ frame.adds = 0
    /\ Len(frame.gd) = 2

\* The layers the ECAL loop of a builder appends, before any graded section.
EcalPart(op, p) ==
    CASE op = "build_v1" ->
            [i \in 1..Times(p.ecal_slices) |-> Layer(ecal_slice_v1(p), p.ecal_material, TRUE)]
      [] op = "build_v2" ->
            [i \in 1..(2 * Times(p.ecal_pairs)) |->
                IF i % 2 = 1 THEN Layer(p.pb_per_pair_cm, p.ecal_absorber, FALSE)
                ELSE Layer(p.sc_per_pair_cm, p.ecal_active, TRUE)]
      [] op = "build_v4" ->
            [i \in 1..(3 * Times(p.ecal_pairs) + (IF p.add_scint_endcap THEN 1 ELSE 0)) |->
                IF i > 3 * Times(p.ecal_pairs) THEN Layer(p.sc_cm, p.ecal_scint, TRUE)
                ELSE IF i % 3 = 1 THEN Layer(p.pb_cm, p.ecal_pb, FALSE)
                ELSE IF i % 3 = 2 THEN Layer(p.sc_cm, p.ecal_scint, TRUE)
                ELSE Layer(p.pbwo4_cm, p.ecal_pbwo4, FALSE)]

\* C13: in every variant each graded-section call add_section(n, t_abs,
\* t_act) appends exactly 2n layers (none when n is not positive) to the end
\* of the geometry and leaves the earlier layers in place: the ECAL layers
\* come first, unchanged, then section after section, per period a
\* non-sensitive absorber layer of thickness t_abs followed by an active
\* layer of thickness t_act whose sensitive flag is sensitive_active_only;
\* nothing follows the last section but the shim of Variant C.  A ledger, when
\* supplied, records exactly the layers of the geometry, each once, in
\* order; without one the caller's ledger is untouched.
C13_SectionsAppendPairs ==
    [][\A op \in Builders :
        (Called(op) /\ last'.exc = "") =>
            LET p == last'.arg
                e == EcalLayers(op, p)
                S == Sections(p, e)
            IN  /\ SubSeq(gd', 1, e) = EcalPart(op, p)
                /\ \A j \in 1..3 :
                      /\ S[j].to - S[j].from + 1 = 2 * Times(S[j].n)
                      /\ \A i \in 1..Times(S[j].n) :
                            /\ gd'[S[j].from + 2 * i - 2] = Layer(S[j].t[1], p.absorber, FALSE)
                            /\ gd'[S[j].from + 2 * i - 1] =
                                   Layer(S[j].t[2], p.active, p.sensitive_active_only)
                /\ Len(gd') = S[3].to + (IF op = "build_v4" /\ shim_v4(p) THEN 1 ELSE 0)
                /\ p.tracked => /\ ct' = add_all(ct, ItemsOf(gd', Len(gd'))).ct
                                /\ nAdds' = nAdds + Len(gd')
                /\ ~p.tracked => ct' = ct /\ nAdds' = nAdds]_vars

\* Reached: a builder given a ledger returned a geometry with ECAL layers
\* and two non-empty graded sections whose active layers are not sensitive
\* (sensitive_active_only = false), all recorded in the ledger.
C13_Witness ==
    /\ \E op \in Builders : ReturnedFrom(op) /\ EcalLayers(op, last.arg) > 0
    /\ last.arg.tracked
    /\ ~last.arg.sensitive_active_only
    /\ Cardinality({k \in {"front_pairs", "mid_pairs", "back_pairs"} : last.arg[k] > 0}) >= 2
    /\ ~gd[EcalLayers(last.op, last.arg) + 2].sensitive
    /\ frame.adds = Len(gd)
    /\ ct.total_length_cm > 0

\* Graded-section layers of a call with arguments p.
HcalLayers(p) == 2 * (Times(p.front_pairs) + Times(p.mid_pairs) + Times(p.back_pairs))

\* C14: Variant C with add_scint_endcap = true appends exactly one extra
\* layer, sensitive, of ecal_scint and thickness sc_cm, right after the last
\* ECAL triplet and before the first HCAL layer, and counts it in specs
\* ecal_len_cm; so whatever the period counts, the layer before the first
\* HCAL layer (graded section or shim, both start with a non-sensitive
\* absorber layer) is sensitive.  With add_scint_endcap = false the first
\* HCAL layer follows the last triplet directly and ecal_len_cm is the
\* length of the triplets alone.
C14_ScintEndcap ==
    ReturnedFrom("build_v4") =>
        LET p == last.arg
            t3 == 3 * Times(p.ecal_pairs)
            triplets == FMul(FromInt(p.ecal_pairs), FAdd(FAdd(p.pb_cm, p.sc_cm), p.pbwo4_cm))
            rest == HcalLayers(p) + (IF shim_v4(p) THEN 1 ELSE 0)
            cap == IF p.add_scint_endcap THEN 1 ELSE 0
        IN  /\ Len(gd) = t3 + cap + rest
            /\ \A i \in 1..t3 :
                  gd[i] = CASE i % 3 = 1 -> Layer(p.pb_cm, p.ecal_pb, FALSE)
                            [] i % 3 = 2 -> Layer(p.sc_cm, p.ecal_scint, TRUE)
                            [] i % 3 = 0 -> Layer(p.pbwo4_cm, p.ecal_pbwo4, FALSE)
            /\ p.add_scint_endcap => /\ gd[t3 + 1] = Layer(p.sc_cm, p.ecal_scint, TRUE)
                                     /\ specs.ecal_len_cm = FAdd(triplets, p.sc_cm)
            /\ ~p.add_scint_endcap => specs.ecal_len_cm = triplets
            /\ specs.scint_endcap = p.add_scint_endcap
            /\ rest > 0 =>
                  /\ gd[t3 + cap + 1].material = p.absorber
                  /\ ~gd[t3 + cap + 1].sensitive
                  /\ p.add_scint_endcap => gd[t3 + cap].sensitive
                  /\ (~p.add_scint_endcap /\ t3 > 0) => ~gd[t3 + cap].sensitive

\* Reached: Variant C returned with the end-cap between a non-sensitive
\* PbWO4 layer and the non-sensitive first HCAL absorber layer.
C14_Witness ==
    /\ ReturnedFrom("build_v4")
    /\ last.arg.add_scint_endcap
    /\ last.arg.ecal_pairs >= 1
    /\ ~gd[3 * last.arg.ecal_pairs].sensitive
    /\ gd[3 * last.arg.ecal_pairs + 1].sensitive
    /\ gd[3 * last.arg.ecal_pairs + 1].material = last.arg.ecal_scint
    /\ ~gd[3 * last.arg.ecal_pairs + 2].sensitive
    /\ specs.ecal_len_cm > 0

\* Reached: Variant C returned without the end-cap; a PbWO4 layer and the
\* first HCAL absorber layer abut.
C14_WitnessNoEndcap ==
    /\ ReturnedFrom("build_v4")
    /\ ~last.arg.add_scint_endcap
    /\ last.arg.ecal_pairs >= 1
    /\ ~gd[3 * last.arg.ecal_pairs].sensitive
    /\ ~gd[3 * last.arg.ecal_pairs + 1].sensitive

\* Reached: Variant C returned with the end-cap as the only ECAL layer.
C14_WitnessNoTriplet ==
    /\ ReturnedFrom("build_v4")
    /\ last.arg.add_scint_endcap
    /\ last.arg.ecal_pairs = 0
    /\ gd[1].sensitive
    /\ Len(gd) > 1

\* add(m1, t1) followed by add(m2, t2), count times, on ledger l.
RECURSIVE Repeated(_, _, _, _, _, _)
Repeated(l, m1, t1, m2, t2, count) ==
    IF count <= 0 THEN l
    ELSE Repeated(add(add(l, m1, t1, 1).ct, m2, t2, 1).ct, m1, t1, m2, t2, count - 1)

\* Ledgers a and b list the same materials and every accumulator of a is
\* within k float spacings of that of b.
LedgersWithin(a, b, k) ==
    /\ a.area_m2 = b.area_m2
    /\ \A f \in {"by_material_cm", "by_material_chf", "by_material_X0", "by_material_lambdaI"} :
          /\ DOMAIN a[f] = DOMAIN b[f]
          /\ \A m \in DOMAIN a[f] : Within(a[f][m], b[f][m], k)
    /\ \A f \in {"total_length_cm", "total_cost_chf", "total_X0", "total_lambdaI"} :
          Within(a[f], b[f], k)

\* C15 as stated: add_pair((m1, t1, m2, t2), count) and add_period([(m1,
\* t1), (m2, t2)], count) leave equal ledgers in equal states, the state
\* reached by add(m1, t1) followed by add(m2, t2), count times.
C15_PairIsPeriod ==
    [][\A op \in {"add_pair", "add_period"} :
        (Called(op) /\ last'.exc = "") =>
            LET a == IF op = "add_pair" THEN last'.arg
                     ELSE <<last'.arg[1][1][1], last'.arg[1][1][2],
                            last'.arg[1][2][1], last'.arg[1][2][2], last'.arg[2]>>
            IN  /\ ct' = Repeated(ct, a[1], a[2], a[3], a[4], a[5])
                /\ ct' = add_pair(ct, a[1], a[2], a[3], a[4], a[5]).ct
                /\ ct' = add_period(ct, <<<<a[1], a[2]>>, <<a[3], a[4]>>>>, a[5]).ct]_vars

\* C15, amended: add_period is add(m1, t1) followed by add(m2, t2), count
\* times, exactly.  add_pair is add(m1, t1, count) followed by add(m2, t2,
\* count): one add per material, of thickness t x count.  For count >= 1 the
\* two leave ledgers that list the same materials with accumulators equal up
\* to rounding (within count + 6 float spacings; exactly equal for count =
\* 1).  For count = 0 add_period changes nothing while add_pair enters both
\* materials into the ledger with zero amounts.
C15_PairIsPeriodRounded ==
    [][/\ (Called("add_period") /\ last'.exc = "") =>
            LET s == last'.arg[1]
            IN  ct' = Repeated(ct, s[1][1], s[1][2], s[2][1], s[2][2], last'.arg[2])
       /\ (Called("add_pair") /\ last'.exc = "") =>
            LET a == last'.arg
                q == add_period(ct, <<<<a[1], a[2]>>, <<a[3], a[4]>>>>, a[5]).ct
            IN  /\ ct' = add(add(ct, a[1], a[2], a[5]).ct, a[3], a[4], a[5]).ct
                /\ a[5] >= 1 => LedgersWithin(ct', q, a[5] + 6)
                /\ a[5] = 1 => ct' = q
                /\ a[5] = 0 => /\ q = ct
                               /\ mats(ct') = mats(ct) \cup {a[1], a[3]}
                               /\ LedgersWithin(ct', [ct EXCEPT
                                      !.by_material_cm = [m \in mats(ct') |-> Get(@, m, 0)],
                                      !.by_material_chf = [m \in mats(ct') |-> Get(@, m, 0)],
                                      !.by_material_X0 = [m \in mats(ct') |-> Get(@, m, 0)],
                                      !.by_material_lambdaI = [m \in mats(ct') |-> Get(@, m, 0)]],
                                    0)]_vars

\* Reached: add_pair with count 2 on a fresh ledger returned and left a
\* ledger that differs from the one add_period leaves, by rounding.
C15_Witness ==
    /\ last.op = "add_pair" /\ last.exc = "" /\ last.arg[5] = 2
    /\ nAdds = 2
    /\ ct = add_pair(CostTracker(ct.area_m2), last.arg[1], last.arg[2], last.arg[3],
                     last.arg[4], 2).ct
    /\ ct # add_period(CostTracker(ct.area_m2), <<<<last.arg[1], last.arg[2]>>,
                                                  <<last.arg[3], last.arg[4]>>>>, 2).ct
    /\ mats(ct) = {last.arg[1], last.arg[3]}

\* Reached: add_pair with count 0 returned and left zero entries for its two
\* materials in a ledger that had none.
C15_WitnessZero ==
    /\ last.op = "add_pair" /\ last.exc = "" /\ last.arg[5] = 0
    /\ nAdds = 2
    /\ ct.total_length_cm = 0
    /\ mats(ct) = {last.arg[1], last.arg[3]}

\* Material m has a price entry and an X0 / lambdaI entry.
InCatalog(m) == m \in DOMAIN COST_CHF_PER_CM_M2 /\ m \in DOMAIN MATERIAL_PROP

\* C16: add is all-or-nothing with respect to unknown materials.  add raises
\* KeyError exactly when the material lacks a price entry or lacks an X0 /
\* lambdaI entry (a material created through set_price alone, or through
\* set_material_props alone, is still unknown), and then the ledger, all
\* eight accumulators, is as before the call.  add_pair and add_period
\* failing on their second material keep the contribution of the first add,
\* which has returned; failing on the first they change nothing.
C16_AddAllOrNothing ==
    [][/\ Called("add") =>
            /\ (last'.exc = "KeyError") <=> ~InCatalog(last'.arg[1])
            /\ last'.exc = "KeyError" => ct' = ct /\ nAdds' = nAdds
            /\ last'.exc = "" => nAdds' = nAdds + 1
       /\ (Called("add_pair") /\ last'.exc = "KeyError") =>
            LET a == last'.arg
            IN  IF InCatalog(a[1])
                THEN /\ ~InCatalog(a[3])
                     /\ ct' = add(ct, a[1], a[2], a[5]).ct
                     /\ nAdds' = nAdds + 1
                ELSE ct' = ct /\ nAdds' = nAdds
       /\ (Called("add_period") /\ last'.exc = "KeyError") =>
            LET s == last'.arg[1]
            IN  IF InCatalog(s[1][1])
                THEN /\ ~InCatalog(s[2][1])
                     /\ ct' = add(ct, s[1][1], s[1][2], 1).ct
                     /\ nAdds' = nAdds + 1
                ELSE ct' = ct /\ nAdds' = nAdds]_vars

\* Reached: add raised for a material that has a price (set through
\* set_price) but no X0 / lambdaI entry, on a ledger that holds an earlier
\* add.
C16_Witness ==
    /\ last.op = "add" /\ last.exc = "KeyError"
    /\ last.arg[1] \in DOMAIN COST_CHF_PER_CM_M2
    /\ last.arg[1] \notin DOMAIN MATERIAL_PROP
    /\ nAdds = 1
    /\ ct.total_length_cm > 0
    /\ last.arg[1] \notin mats(ct)

\* Reached: add raised for a material that has X0 / lambdaI (set through
\* set_material_props) but no price.
C16_WitnessNoPrice ==
    /\ last.op = "add" /\ last.exc = "KeyError"
    /\ last.arg[1] \notin DOMAIN COST_CHF_PER_CM_M2
    /\ last.arg[1] \in DOMAIN MATERIAL_PROP

\* Reached: add_pair raised on the second material and the ledger holds the
\* first.
C16_WitnessPair ==
    /\ last.op = "add_pair" /\ last.exc = "KeyError"
    /\ nAdds = 1
    /\ mats(ct) = {last.arg[1]}
    /\ ct.total_cost_chf > 0

\* Reached: add_period raised on the second material and the ledger holds
\* the first.
C16_WitnessPeriod ==
    /\ last.op = "add_period" /\ last.exc = "KeyError"
    /\ nAdds = 1
    /\ mats(ct) = {last.arg[1][1][1]}
    /\ ct.total_cost_chf > 0

====
